---- MODULE Spec2Model ----
(***************************************************************************)
(* GharSathi rental backend: the authentication gate, the identity store,  *)
(* the listing workflow and the booking workflow, as a state machine over  *)
(* the three document stores.  Every request handler is an action; a       *)
(* handler that awaits the store more than once while it depends on what   *)
(* other requests write is split at those awaits, so that overlapping      *)
(* requests interleave exactly where the event loop lets them.             *)
(***************************************************************************)
EXTENDS Integers, Sequences, FiniteSets, Bags, TLC

\* ------------------------------------------------------------------ bounds
MaxUsers == 3
MaxListings == 1
MaxBookings == 2
MaxInFlight == 2
MaxTicks == 1

\* --------------------------------------------------------- program constants
\* jwt.sign(..., { expiresIn: '7d' }), in days
TokenTTL == 7
\* if (password.length < 6)
MinPasswordLen == 6
\* name: minlength 2
MinNameLen == 2
MaxNameLen == 50


\* ------------------------------------------------------------------ strings
\* An email is a tuple of one-character strings, so that toLowerCase() is
\* computed character by character.
UpperChars == <<"A","B","C","D","E","F","G","H","I","J","K","L","M",
                "N","O","P","Q","R","S","T","U","V","W","X","Y","Z">>
LowerChars == <<"a","b","c","d","e","f","g","h","i","j","k","l","m",
                "n","o","p","q","r","s","t","u","v","w","x","y","z">>
Digits == {"0","1","2","3","4","5","6","7","8","9"}

Range(s) == {s[i] : i \in DOMAIN s}

LowerChar(c) ==
    IF \E i \in DOMAIN UpperChars : UpperChars[i] = c
    THEN LowerChars[CHOOSE i \in DOMAIN UpperChars : UpperChars[i] = c]
    ELSE c

\* String.prototype.toLowerCase
ToLower(s) == [i \in DOMAIN s |-> LowerChar(s[i])]

\* \w of a JavaScript regular expression
IsWordChar(c) == c \in Range(UpperChars) \cup Range(LowerChars) \cup Digits \cup {"_"}

\* \w+([\.-]?\w+)* : word characters with single "." or "-" separators inside
WordRun(s) ==
    /\ Len(s) > 0
    /\ IsWordChar(s[1])
    /\ IsWordChar(s[Len(s)])
    /\ \A i \in DOMAIN s : IsWordChar(s[i]) \/ s[i] \in {".", "-"}
    /\ \A i \in 1..(Len(s) - 1) : IsWordChar(s[i]) \/ IsWordChar(s[i + 1])

\* /^\w+([\.-]?\w+)*@\w+([\.-]?\w+)*(\.\w{2,3})+$/
MatchesEmailPattern(s) ==
    \E at \in DOMAIN s :
        /\ s[at] = "@"
        /\ WordRun(SubSeq(s, 1, at - 1))
        /\ \E dot \in (at + 2)..Len(s) :
              /\ s[dot] = "."
              /\ WordRun(SubSeq(s, at + 1, dot - 1))
              /\ Len(s) - dot \in {2, 3}
              /\ \A i \in (dot + 1)..Len(s) : IsWordChar(s[i])

\* 'admin@gharsathi.com'
AdminEmail == <<"a","d","m","i","n","@","g","h","a","r","s","a","t","h","i",".","c","o","m">>
AdminPassword == "admin123"
AdminName == "System Admin"

Roles == {"Tenant", "Owner", "Admin"}
\* the role field of a request body that carries none
NoRole == ""

\* ------------------------------------------------------------ credentials
\* bcrypt.genSalt draws the salt at random; one representative salt.
Salts == {"salt1"}

\* bcrypt.hash(password, salt): the salt is kept in the hash, the digest is
\* a one-way function of the pair.
bcryptHash(password, salt) == [salt |-> salt, digest |-> <<salt, password>>]

\* a comparison that accepts every candidate
compareAlways(candidate, hash) == TRUE

\* bcrypt.compare(candidate, hash): re-hash with the hash's salt
comparePassword(candidate, hash) == bcryptHash(candidate, hash.salt) = hash

\* a password field of a request body that is a JSON number, not a string
NumericPassword == "#123456"

\* bcrypt.compare rejects a candidate that is no string, and comparePassword
\* rethrows: 'Password comparison failed'
compareRaises(candidate) == candidate = NumericPassword

JWT_SECRET == "secret"

\* jwt.sign({ id: userId }, JWT_SECRET, { expiresIn: '7d' })
generateToken(userId, clock) ==
    [id |-> userId, iat |-> clock, exp |-> clock + TokenTTL, sig |-> JWT_SECRET]

\* jwt.decode followed by the expiry test: the signature is not verified
jwtDecodeOnly(token, clock) ==
    IF clock >= token.exp THEN [error |-> "TokenExpiredError"]
    ELSE [error |-> "", id |-> token.id]

\* jwt.verify(token, JWT_SECRET): the signature first, then the expiry
jwtVerify(token, clock) ==
    IF token.sig # JWT_SECRET THEN [error |-> "JsonWebTokenError"]
    ELSE IF clock >= token.exp THEN [error |-> "TokenExpiredError"]
    ELSE [error |-> "", id |-> token.id]

\* --------------------------------------------------------------- the state
VARIABLES
    users,        \* the User collection: a sequence, _id = position
    listings,     \* the Listing collection: _id -> document
    listingCount, \* how many Listing _ids were ever allocated
    bookings,     \* the Booking collection: a sequence, _id = position
    inflight,     \* the requests between two awaits: a bag of their positions and locals
    now,          \* the clock, in days
    destroyed,    \* the public ids the image store was made to destroy
    last          \* the response sent last, with the request it answers

vars == <<users, listings, listingCount, bookings, inflight, now, destroyed, last>>

NoResponse == [op |-> "none"]

\* a handler starts once the previous response is written out
Ready == last = NoResponse
\* the event loop holds at most MaxInFlight suspended handlers
CanSuspend == BagCardinality(inflight) < MaxInFlight
Suspend(c) == inflight (+) SetToBag({c})
Resume(c) == inflight (-) SetToBag({c})

\* res.status(code).json({ success, message, ... })
Reply(code, message) == [code |-> code, message |-> message]

\* ---------------------------------------------------------- identity store
\* String.prototype.trim on a string of characters
RECURSIVE TrimLeft(_)
TrimLeft(s) == IF s # <<>> /\ s[1] = " " THEN TrimLeft(Tail(s)) ELSE s
RECURSIVE TrimRight(_)
TrimRight(s) ==
    IF s # <<>> /\ s[Len(s)] = " " THEN TrimRight(SubSeq(s, 1, Len(s) - 1)) ELSE s
Trim(s) == TrimRight(TrimLeft(s))

\* the string setters of userSchema.email (trim: true, lowercase: true),
\* which Mongoose applies to stored values and to query filters alike
EmailSetter(email) == ToLower(Trim(email))

\* User.findOne({ email }): the _id of the first match, 0 for null
FindUserByEmail(us, email) ==
    LET hits == {i \in DOMAIN us : us[i].email = EmailSetter(email)}
    IN IF hits = {} THEN 0 ELSE CHOOSE i \in hits : \A j \in hits : i <= j

\* a collection without the unique index on email
EmailIndexAbsent(us, email) == FALSE

\* the unique index on User.email: does an insert of this email collide?
EmailIndexRejects(us, email) == \E i \in DOMAIN us : us[i].email = email

\* the validators of userSchema that run in User.create, in path order
UserValidationErrors(doc) ==
    (IF Len(doc.name) < MinNameLen
        THEN <<"Name must be at least 2 characters long">>
        ELSE IF Len(doc.name) > MaxNameLen
        THEN <<"Name cannot exceed 50 characters">> ELSE <<>>)
    \o (IF ~MatchesEmailPattern(doc.email)
        THEN <<"Please provide a valid email address">> ELSE <<>>)
    \o (IF Len(doc.password) < MinPasswordLen
        THEN <<"Password must be at least 6 characters long">> ELSE <<>>)
    \o (IF doc.role \notin Roles
        THEN <<"Role must be either Tenant, Owner, or Admin">> ELSE <<>>)

\* messages.join(', ')
RECURSIVE Join(_)
Join(msgs) ==
    IF Len(msgs) = 0 THEN ""
    ELSE IF Len(msgs) = 1 THEN msgs[1]
    ELSE msgs[1] \o ", " \o Join(Tail(msgs))

\* the document User.create builds: setters applied, timestamps set
NewUser(name, email, password, role, clock) ==
    [name |-> name, email |-> EmailSetter(email),
     password |-> password, role |-> role, createdAt |-> clock]

\* the pre-save hook: the password is stored as its bcrypt hash
PreSave(doc, salt) == [doc EXCEPT !.password = bcryptHash(@, salt)]

\* the stored user document as it is, hash included
PublicUserWhole(us, id) == [id |-> id] @@ us[id]

\* the user object of a register or login response
PublicUser(us, id) ==
    [id |-> id, name |-> us[id].name, email |-> us[id].email, role |-> us[id].role]

MsgEmailTaken == "Email already registered. Please login instead."
MsgBadCredentials == "Invalid email or password"

\* ---------------------------------------------------------------- register
\* register, up to the reply or to the point where User.create is awaited:
\* the presence and length checks, User.findOne, the role check
RegisterCheck(us, body) ==
    IF body.name = "" \/ body.email = <<>> \/ body.password = ""
    THEN Reply(400, "Please provide name, email, and password")
    ELSE IF Len(body.password) < MinPasswordLen
    THEN Reply(400, "Password must be at least 6 characters long")
    ELSE IF FindUserByEmail(us, ToLower(body.email)) # 0
    THEN Reply(400, MsgEmailTaken)
    ELSE IF (IF body.role = NoRole THEN "Tenant" ELSE body.role) \notin Roles
    THEN Reply(400, "Invalid role. Must be Tenant, Owner, or Admin")
    ELSE Reply(0, "")

RegisterStart(body) ==
    /\ Ready
    /\ LET res == RegisterCheck(users, body)
       IN IF res.code # 0
          THEN /\ last' = [op |-> "register", req |-> body, res |-> res]
               /\ UNCHANGED inflight
          ELSE /\ CanSuspend
               /\ inflight' = Suspend([pc |-> "register_create", body |-> body])
               /\ UNCHANGED last
    /\ UNCHANGED <<users, listings, listingCount, bookings, now, destroyed>>

\* User.create and what follows it, with the catch block of register
RegisterCreate(c) ==
    /\ Ready
    /\ c.pc = "register_create"
    /\ LET body == c.body
           role == IF body.role = NoRole THEN "Tenant" ELSE body.role
       IN \E salt \in Salts :
          LET doc == NewUser(body.name, ToLower(body.email), body.password, role, now)
              errs == UserValidationErrors(doc)
          IN IF errs # <<>>
             THEN /\ last' = [op |-> "register", req |-> body, res |-> Reply(400, Join(errs))]
                  /\ UNCHANGED users
             ELSE IF EmailIndexRejects(users, doc.email)
             THEN /\ last' = [op |-> "register", req |-> body, res |-> Reply(400, MsgEmailTaken)]
                  /\ UNCHANGED users
             ELSE /\ Len(users) < MaxUsers
                  /\ users' = Append(users, PreSave(doc, salt))
                  /\ last' = [op |-> "register", req |-> body,
                              res |-> [code |-> 201, message |-> "Registration successful",
                                       user |-> PublicUser(users', Len(users')),
                                       token |-> generateToken(Len(users'), now)]]
    /\ inflight' = Resume(c)
    /\ UNCHANGED <<listings, listingCount, bookings, now, destroyed>>

\* ------------------------------------------------------------------- login
\* a login that names the reason of a refusal
LoginResultTelling(us, body, clock) ==
    LET id == FindUserByEmail(us, ToLower(body.email))
    IN IF id = 0 THEN Reply(401, "No account found with this email")
       ELSE IF compareRaises(body.password)
       THEN Reply(500, "Login failed. Please try again.")
       ELSE IF ~comparePassword(body.password, us[id].password)
       THEN Reply(401, "Incorrect password")
       ELSE [code |-> 200, message |-> "Login successful",
             user |-> PublicUser(us, id), token |-> generateToken(id, clock)]

\* a login that looks the email up as it was typed
LoginResultExactEmail(us, body, clock) ==
    LET hits == {i \in DOMAIN us : us[i].email = body.email}
        id == IF hits = {} THEN 0 ELSE CHOOSE i \in hits : TRUE
    IN IF id = 0 THEN Reply(401, MsgBadCredentials)
       ELSE IF compareRaises(body.password)
       THEN Reply(500, "Login failed. Please try again.")
       ELSE IF ~comparePassword(body.password, us[id].password)
       THEN Reply(401, MsgBadCredentials)
       ELSE [code |-> 200, message |-> "Login successful",
             user |-> PublicUser(us, id), token |-> generateToken(id, clock)]

\* login from User.findOne(...).select('+password') to the reply
LoginResult(us, body, clock) ==
    LET id == FindUserByEmail(us, ToLower(body.email))
    IN IF id = 0 THEN Reply(401, MsgBadCredentials)
       ELSE IF compareRaises(body.password)
       THEN Reply(500, "Login failed. Please try again.")
       ELSE IF ~comparePassword(body.password, us[id].password)
       THEN Reply(401, MsgBadCredentials)
       ELSE [code |-> 200, message |-> "Login successful",
             user |-> PublicUser(us, id), token |-> generateToken(id, clock)]

\* login up to its first await that another request can affect: the field
\* check, then either the dev shortcut's User.findOne or the lookup proper
LoginStart(body) ==
    /\ Ready
    /\ IF body.email = <<>> \/ body.password = ""
       THEN /\ last' = [op |-> "login", req |-> body,
                        res |-> Reply(400, "Please provide email and password")]
            /\ UNCHANGED inflight
       ELSE IF body.email = AdminEmail /\ body.password = AdminPassword
       THEN /\ CanSuspend
            /\ LET adminUser == FindUserByEmail(users, body.email)
               IN inflight' = Suspend([pc |-> IF adminUser = 0 THEN "login_create_admin"
                                              ELSE "login_find",
                                       body |-> body, adminUser |-> adminUser])
            /\ UNCHANGED last
       ELSE /\ last' = [op |-> "login", req |-> body, res |-> LoginResult(users, body, now)]
            /\ UNCHANGED inflight
    /\ UNCHANGED <<users, listings, listingCount, bookings, now, destroyed>>

\* the dev shortcut's User.create; a duplicate key lands in login's catch
LoginCreateAdmin(c) ==
    /\ Ready
    /\ c.pc = "login_create_admin"
    /\ \E salt \in Salts :
       LET doc == NewUser(AdminName, AdminEmail, AdminPassword, "Admin", now)
       IN IF EmailIndexRejects(users, doc.email)
          THEN /\ last' = [op |-> "login", req |-> c.body,
                           res |-> Reply(500, "Login failed. Please try again.")]
               /\ inflight' = Resume(c)
               /\ UNCHANGED users
          ELSE /\ Len(users) < MaxUsers
               /\ users' = Append(users, PreSave(doc, salt))
               /\ inflight' = Suspend([c EXCEPT !.pc = "login_find"]) (-) SetToBag({c})
               /\ UNCHANGED last
    /\ UNCHANGED <<listings, listingCount, bookings, now, destroyed>>

LoginFind(c) ==
    /\ Ready
    /\ c.pc = "login_find"
    /\ last' = [op |-> "login", req |-> c.body, res |-> LoginResult(users, c.body, now)]
    /\ inflight' = Resume(c)
    /\ UNCHANGED <<users, listings, listingCount, bookings, now, destroyed>>

\* a token lifetime passes
Tick ==
    /\ Ready
    /\ now < MaxTicks * TokenTTL
    /\ now' = now + TokenTTL
    /\ UNCHANGED <<users, listings, listingCount, bookings, inflight, destroyed, last>>

\* ------------------------------------------------------ authorization gate
NoToken == [id |-> 0, iat |-> 0, exp |-> 0, sig |-> ""]
NoHeader == [scheme |-> "", token |-> NoToken]
Bearer(token) == [scheme |-> "Bearer", token |-> token]

\* the _id of an account that was removed from the store after a token was
\* issued for it (protect handles it: "User not found")
RemovedUserId == MaxUsers + 1

\* a gate that looks the user up before it tests the token's expiry
protectLookupFirst(header, us, clock) ==
    LET token == IF header.scheme = "Bearer" THEN header.token ELSE NoToken
    IN IF token = NoToken
       THEN [user |-> 0, res |-> Reply(401, "Not authorized. Please login to access this resource.")]
       ELSE IF token.sig # JWT_SECRET
       THEN [user |-> 0, res |-> Reply(401, "Invalid token. Please login again.")]
       ELSE IF token.id \notin DOMAIN us
       THEN [user |-> 0, res |-> Reply(401, "User not found. Please login again.")]
       ELSE IF clock >= token.exp
       THEN [user |-> 0, res |-> Reply(401, "Token expired. Please login again.")]
       ELSE [user |-> token.id, res |-> Reply(0, "")]

\* protect: the bound user's _id, or the 401 it answers
protect(header, us, clock) ==
    LET token == IF header.scheme = "Bearer" THEN header.token ELSE NoToken
        decoded == jwtVerify(token, clock)
    IN IF token = NoToken
       THEN [user |-> 0, res |-> Reply(401, "Not authorized. Please login to access this resource.")]
       ELSE IF decoded.error = "JsonWebTokenError"
       THEN [user |-> 0, res |-> Reply(401, "Invalid token. Please login again.")]
       ELSE IF decoded.error = "TokenExpiredError"
       THEN [user |-> 0, res |-> Reply(401, "Token expired. Please login again.")]
       ELSE IF decoded.id \notin DOMAIN us
       THEN [user |-> 0, res |-> Reply(401, "User not found. Please login again.")]
       ELSE [user |-> decoded.id, res |-> Reply(0, "")]

\* req.user as protect binds it: User.findById(decoded.id).select('-password')
reqUser(us, id) == [f \in DOMAIN us[id] \ {"password"} |-> us[id][f]]

\* requireOwner, after protect
requireOwner(us, user) ==
    IF reqUser(us, user).role # "Owner" /\ reqUser(us, user).role # "Admin"
    THEN Reply(403, "Access denied. This resource is only available to property owners.")
    ELSE Reply(0, "")

\* a gate that lets owners through as well
requireAdminOrOwner(us, user) ==
    IF reqUser(us, user).role \notin {"Admin", "Owner"}
    THEN Reply(403, "Access denied. This resource is only available to administrators.")
    ELSE Reply(0, "")

\* requireAdmin, after protect
requireAdmin(us, user) ==
    IF reqUser(us, user).role # "Admin"
    THEN Reply(403, "Access denied. This resource is only available to administrators.")
    ELSE Reply(0, "")

\* the middleware chain in front of a handler: gate is "" (protect only),
\* "owner" or "admin"
Gate(gate, header, us, clock) ==
    LET p == protect(header, us, clock)
    IN IF p.user = 0 THEN p
       ELSE [user |-> p.user,
             res |-> IF gate = "owner" THEN requireOwner(us, p.user)
                     ELSE IF gate = "admin" THEN requireAdmin(us, p.user)
                     ELSE Reply(0, "")]

\* ------------------------------------------------------------------- ids
\* a request parameter that is no ObjectId: Mongoose raises CastError
MalformedId == 0
WellFormed(id) == id # MalformedId

\* --------------------------------------------------------- listing workflow
ListingTypes == {"Room", "Hostel", "Apartment", "Flat"}

\* a request body is a record of the fields it carries
Has(body, f) == f \in DOMAIN body
\* a test that takes every supplied text for a value
SuppliedText(body, f) == Has(body, f)
\* JavaScript truthiness of a body field: present, and neither "" nor 0
TruthyText(body, f) == Has(body, f) /\ Len(body[f]) # 0
TruthyNumber(body, f) == Has(body, f) /\ body[f] # 0

MsgNotFound == "Listing not found"
MsgInvalidId == "Invalid listing ID"
MsgPrice == "Price must be a positive number"
MsgType == "Type must be either Room, Hostel, Apartment, or Flat"

\* the validators of listingSchema that run on create and on save
ListingValidationErrors(doc) ==
    (IF Len(doc.title) < 5
        THEN <<"Title must be at least 5 characters long">>
        ELSE IF Len(doc.title) > 100
        THEN <<"Title cannot exceed 100 characters">> ELSE <<>>)
    \o (IF Len(doc.description) < 20
        THEN <<"Description must be at least 20 characters long">>
        ELSE IF Len(doc.description) > 2000
        THEN <<"Description cannot exceed 2000 characters">> ELSE <<>>)
    \o (IF doc.price < 0 THEN <<MsgPrice>> ELSE <<>>)
    \o (IF doc.type \notin ListingTypes THEN <<MsgType>> ELSE <<>>)
    \o (IF \E i \in DOMAIN doc.images : Len(doc.images[i]) = 0
        THEN <<"All image URLs must be valid strings">> ELSE <<>>)

\* a document built from the body alone, with the schema's default approval
NewListingFromBody(body, userId) ==
    [title |-> body.title, description |-> body.description,
     price |-> body.price, location |-> body.location,
     type |-> body.type,
     images |-> IF Has(body, "images") THEN body.images ELSE <<>>,
     ownerId |-> IF Has(body, "ownerId") THEN body.ownerId ELSE userId,
     isApproved |-> FALSE]

\* the document createListing hands to Listing.create: the owner is
\* req.user._id, and the listing is approved at once
NewListing(body, userId) ==
    [title |-> body.title, description |-> body.description,
     price |-> body.price, location |-> body.location,
     type |-> body.type,
     images |-> IF Has(body, "images") THEN body.images ELSE <<>>,
     ownerId |-> userId, isApproved |-> TRUE]

\* createListing behind protect and requireOwner, in a store that holds
\* at most cap listings
CreateListingWithin(cap, header, body) ==
    /\ Ready
    /\ LET g == Gate("owner", header, users, now)
           req == [header |-> header, body |-> body]
           doc == NewListing(body, g.user)
       IN IF g.res.code # 0
          THEN /\ last' = [op |-> "createListing", req |-> req, res |-> g.res]
               /\ UNCHANGED <<listings, listingCount>>
          ELSE IF ~TruthyText(body, "title") \/ ~TruthyText(body, "description")
                  \/ ~TruthyNumber(body, "price") \/ ~TruthyText(body, "location")
                  \/ ~TruthyText(body, "type")
          THEN /\ last' = [op |-> "createListing", req |-> req,
                           res |-> Reply(400, "Please provide all required fields: title, description, price, location, type")]
               /\ UNCHANGED <<listings, listingCount>>
          ELSE IF body.price <= 0
          THEN /\ last' = [op |-> "createListing", req |-> req, res |-> Reply(400, MsgPrice)]
               /\ UNCHANGED <<listings, listingCount>>
          ELSE IF body.type \notin ListingTypes
          THEN /\ last' = [op |-> "createListing", req |-> req, res |-> Reply(400, MsgType)]
               /\ UNCHANGED <<listings, listingCount>>
          ELSE IF ListingValidationErrors(doc) # <<>>
          THEN /\ last' = [op |-> "createListing", req |-> req,
                           res |-> Reply(400, Join(ListingValidationErrors(doc)))]
               /\ UNCHANGED <<listings, listingCount>>
          ELSE /\ listingCount < cap
               /\ listingCount' = listingCount + 1
               /\ listings' = (listingCount + 1) :> doc @@ listings
               /\ last' = [op |-> "createListing", req |-> req,
                           res |-> [code |-> 201, message |-> "Listing created successfully",
                                    id |-> listingCount + 1, data |-> doc]]
    /\ UNCHANGED <<users, bookings, inflight, now, destroyed>>

CreateListing(header, body) == CreateListingWithin(MaxListings, header, body)

\* an ownership test that lets administrators through
OwnsListingOrAdmin(us, listing, userId) ==
    listing.ownerId = userId \/ us[userId].role = "Admin"

\* listing.ownerId.toString() === req.user._id.toString()
OwnsListing(us, listing, userId) == listing.ownerId = userId

\* assignments that also copy isApproved from the body
ApplyUpdateWithApproval(doc, body) ==
    [doc EXCEPT
       !.price = IF TruthyNumber(body, "price") THEN body.price ELSE @,
       !.type = IF TruthyText(body, "type") THEN body.type ELSE @,
       !.isApproved = IF Has(body, "isApproved") THEN body.isApproved ELSE @]

\* assignments that copy every field the body names
ApplyUpdateWholesale(doc, body) ==
    [f \in DOMAIN doc |-> IF Has(body, f) THEN body[f] ELSE doc[f]]

\* the assignments of updateListing's step 5: only truthy fields overwrite
ApplyUpdate(doc, body) ==
    [doc EXCEPT
       !.title = IF TruthyText(body, "title") THEN body.title ELSE @,
       !.description = IF TruthyText(body, "description") THEN body.description ELSE @,
       !.price = IF TruthyNumber(body, "price") THEN body.price ELSE @,
       !.location = IF TruthyText(body, "location") THEN body.location ELSE @,
       !.type = IF TruthyText(body, "type") THEN body.type ELSE @,
       !.images = IF Has(body, "images") THEN body.images ELSE @]

\* updateListing behind protect and requireOwner
UpdateListing(header, id, body) ==
    /\ Ready
    /\ LET g == Gate("owner", header, users, now)
           req == [header |-> header, id |-> id, body |-> body]
           Answer(res) == /\ last' = [op |-> "updateListing", req |-> req, res |-> res]
                          /\ UNCHANGED listings
       IN IF g.res.code # 0 THEN Answer(g.res)
          ELSE IF ~WellFormed(id) THEN Answer(Reply(400, MsgInvalidId))
          ELSE IF id \notin DOMAIN listings THEN Answer(Reply(404, MsgNotFound))
          ELSE IF ~OwnsListing(users, listings[id], g.user)
          THEN Answer(Reply(403, "You are not authorized to update this listing"))
          ELSE IF Has(body, "price") /\ body.price <= 0 THEN Answer(Reply(400, MsgPrice))
          ELSE IF TruthyText(body, "type") /\ body.type \notin ListingTypes
          THEN Answer(Reply(400, MsgType))
          ELSE IF ListingValidationErrors(ApplyUpdate(listings[id], body)) # <<>>
          THEN Answer(Reply(400, Join(ListingValidationErrors(ApplyUpdate(listings[id], body)))))
          ELSE /\ listings' = [listings EXCEPT ![id] = ApplyUpdate(@, body)]
               /\ last' = [op |-> "updateListing", req |-> req,
                           res |-> [code |-> 200, message |-> "Listing updated successfully",
                                    id |-> id, data |-> listings'[id]]]
    /\ UNCHANGED <<users, listingCount, bookings, inflight, now, destroyed>>

\* the collection without one document
Without(coll, id) == [i \in DOMAIN coll \ {id} |-> coll[i]]

\* the characters after the last "/" of a URL (split('/'), last element)
RECURSIVE LastSegment(_)
LastSegment(url) ==
    IF \E i \in DOMAIN url : url[i] = "/"
    THEN LastSegment(Tail(url)) ELSE url

\* the characters before the first "." of a file name (split('.')[0])
RECURSIVE BeforeDot(_)
BeforeDot(name) ==
    IF name = <<>> \/ name[1] = "." THEN <<>>
    ELSE <<name[1]>> \o BeforeDot(Tail(name))

\* getPublicIdFromUrl: `gharsathi/listings/${publicId}`
getPublicIdFromUrl(url) == <<"gharsathi/listings/">> \o BeforeDot(LastSegment(url))

\* a delete that takes the listing's bookings with it
BookingsCascade(bs, listingId) ==
    LET Kept(b) == b.listingId # listingId IN SelectSeq(bs, Kept)

\* the Booking collection after Listing.findByIdAndDelete(id): the handler
\* issues no write to it, and the schemas define no hook on delete
BookingsAfterDelete(bs, listingId) == bs

\* deleteListing behind protect and requireOwner; failing is the set of
\* public ids whose cloudinary.uploader.destroy call rejects: the other
\* calls of Promise.all go through, a rejection lands in the catch block
DeleteListing(header, id, failing) ==
    /\ Ready
    /\ LET g == Gate("owner", header, users, now)
           req == [header |-> header, id |-> id]
           Answer(res) == /\ last' = [op |-> "deleteListing", req |-> req, res |-> res]
                          /\ UNCHANGED <<listings, bookings, destroyed>>
       IN IF g.res.code # 0 THEN Answer(g.res)
          ELSE IF ~WellFormed(id) THEN Answer(Reply(400, MsgInvalidId))
          ELSE IF id \notin DOMAIN listings THEN Answer(Reply(404, MsgNotFound))
          ELSE IF ~OwnsListing(users, listings[id], g.user)
          THEN Answer(Reply(403, "You are not authorized to delete this listing"))
          ELSE LET publicIds == {getPublicIdFromUrl(listings[id].images[i]) :
                                    i \in DOMAIN listings[id].images}
               IN IF publicIds \cap failing # {}
                  THEN /\ destroyed' = destroyed \cup (publicIds \ failing)
                       /\ last' = [op |-> "deleteListing", req |-> req,
                                   res |-> Reply(500, "Failed to delete listing. Please try again.")]
                       /\ UNCHANGED <<listings, bookings>>
                  ELSE /\ destroyed' = destroyed \cup publicIds
                       /\ listings' = Without(listings, id)
                       /\ bookings' = BookingsAfterDelete(bookings, id)
                       /\ last' = [op |-> "deleteListing", req |-> req,
                                   res |-> Reply(200, "Listing deleted successfully")]
    /\ UNCHANGED <<users, listingCount, inflight, now>>

\* updateListingStatus behind protect and requireAdmin; isApproved carries
\* the JavaScript type of the body field next to its value
UpdateListingStatus(header, id, isApproved) ==
    /\ Ready
    /\ LET g == Gate("admin", header, users, now)
           req == [header |-> header, id |-> id, isApproved |-> isApproved]
           Answer(res) == /\ last' = [op |-> "updateListingStatus", req |-> req, res |-> res]
                          /\ UNCHANGED listings
       IN IF g.res.code # 0 THEN Answer(g.res)
          ELSE IF isApproved.type # "boolean" THEN Answer(Reply(400, "Invalid status provided"))
          ELSE IF ~WellFormed(id) THEN Answer(Reply(500, "Failed to update listing status"))
          ELSE IF id \notin DOMAIN listings THEN Answer(Reply(404, MsgNotFound))
          ELSE /\ listings' = [listings EXCEPT ![id].isApproved = isApproved.value]
               /\ last' = [op |-> "updateListingStatus", req |-> req,
                           res |-> [code |-> 200,
                                    message |-> IF isApproved.value
                                                THEN "Listing approved successfully"
                                                ELSE "Listing rejected successfully",
                                    id |-> id, data |-> listings'[id]]]
    /\ UNCHANGED <<users, listingCount, bookings, inflight, now, destroyed>>

\* ------------------------------------------------------------ listing reads
\* .sort({ createdAt: -1 }): _ids are allocated in creation order
RECURSIVE NewestFirst(_)
NewestFirst(ids) ==
    IF ids = {} THEN <<>>
    ELSE LET m == CHOOSE i \in ids : \A j \in ids : j <= i
         IN <<m>> \o NewestFirst(ids \ {m})

\* a populated reference whose document is gone
Null == [null |-> TRUE]

\* .populate(path, 'name email'): the referenced user's _id, name and email
UserSummary(us, id) ==
    IF id \in DOMAIN us
    THEN [id |-> id, name |-> us[id].name, email |-> us[id].email]
    ELSE Null

\* a listing document as a response carries it
ListingJSON(ls, id) == [id |-> id] @@ ls[id]

\* the same with .populate('ownerId', 'name email')
PopulatedListing(ls, us, id) ==
    [ListingJSON(ls, id) EXCEPT !.ownerId = UserSummary(us, @)]

\* Number(text) for a query-string value: its value if it is a run of
\* digits, NaN (-1 here) otherwise
DigitValue(c) ==
    CASE c = "0" -> 0 [] c = "1" -> 1 [] c = "2" -> 2 [] c = "3" -> 3 [] c = "4" -> 4
      [] c = "5" -> 5 [] c = "6" -> 6 [] c = "7" -> 7 [] c = "8" -> 8 [] c = "9" -> 9
NaN == 0 - 1
RECURSIVE DigitsValue(_)
DigitsValue(text) ==
    IF text = <<>> THEN 0
    ELSE 10 * DigitsValue(SubSeq(text, 1, Len(text) - 1)) + DigitValue(text[Len(text)])
Number(text) ==
    IF \A i \in DOMAIN text : text[i] \in Digits THEN DigitsValue(text) ELSE NaN

\* new RegExp(search, 'i'), for patterns of literal characters, "." and
\* parentheses: a pattern with an unmatched parenthesis raises SyntaxError
RegExpCompiles(pattern) ==
    Cardinality({i \in DOMAIN pattern : pattern[i] = "("})
        = Cardinality({i \in DOMAIN pattern : pattern[i] = ")"})

\* does the pattern match the text at position k?  "." matches any character,
\* a letter matches in either case
MatchesAt(pattern, text, k) ==
    /\ k + Len(pattern) - 1 <= Len(text)
    /\ \A i \in DOMAIN pattern :
          pattern[i] = "." \/ LowerChar(pattern[i]) = LowerChar(text[k + i - 1])

\* { field: searchRegex }: the pattern matches somewhere in the text
RegExpTest(pattern, text) == \E k \in 1..Len(text) : MatchesAt(pattern, text, k)

\* a query-string parameter that is present and not empty
TruthyParam(query, f) == f \in DOMAIN query /\ Len(query[f]) # 0

\* the filter getAllListings builds from req.query, applied to one listing
MatchesQuery(doc, query) ==
    /\ doc.isApproved
    /\ (TruthyParam(query, "type") /\ query.type # "All") => doc.type = query.type
    /\ TruthyParam(query, "minPrice") => doc.price >= Number(query.minPrice)
    /\ TruthyParam(query, "maxPrice") => doc.price <= Number(query.maxPrice)
    /\ TruthyParam(query, "search") =>
          (RegExpTest(query.search, doc.title) \/ RegExpTest(query.search, doc.location))

\* getAllListings from the query to the reply
getAllListings(ls, us, query) ==
    IF \/ TruthyParam(query, "search") /\ ~RegExpCompiles(query.search)
       \/ TruthyParam(query, "minPrice") /\ Number(query.minPrice) = NaN
       \/ TruthyParam(query, "maxPrice") /\ Number(query.maxPrice) = NaN
    THEN Reply(500, "Failed to fetch listings. Please try again.")
    ELSE LET ids == NewestFirst({i \in DOMAIN ls : MatchesQuery(ls[i], query)})
         IN [code |-> 200, count |-> Len(ids),
             data |-> [k \in DOMAIN ids |-> PopulatedListing(ls, us, ids[k])]]

\* the frame of a handler that only reads
ReadOnly == UNCHANGED <<users, listings, listingCount, bookings, inflight, now, destroyed>>

\* GET /api/listings, public
GetAllListings(query) ==
    /\ Ready
    /\ last' = [op |-> "getAllListings", req |-> [query |-> query],
                res |-> getAllListings(listings, users, query)]
    /\ ReadOnly

\* getListingById without its CastError branch: the cast error of a
\* malformed id falls through to the general reply
getListingByIdUncaught(ls, us, id) ==
    IF ~WellFormed(id) THEN Reply(500, "Failed to fetch listing details")
    ELSE IF id \notin DOMAIN ls THEN Reply(404, MsgNotFound)
    ELSE [code |-> 200, data |-> PopulatedListing(ls, us, id)]

\* getListingById from the id to the reply
getListingById(ls, us, id) ==
    IF ~WellFormed(id) THEN Reply(400, MsgInvalidId)
    ELSE IF id \notin DOMAIN ls THEN Reply(404, MsgNotFound)
    ELSE [code |-> 200, data |-> PopulatedListing(ls, us, id)]

\* GET /api/listings/:id, public
GetListingById(id) ==
    /\ Ready
    /\ last' = [op |-> "getListingById", req |-> [id |-> id],
                res |-> getListingById(listings, users, id)]
    /\ ReadOnly

\* getOwnerListings behind protect and requireOwner
GetOwnerListings(header) ==
    /\ Ready
    /\ LET g == Gate("owner", header, users, now)
           ids == NewestFirst({i \in DOMAIN listings : listings[i].ownerId = g.user})
       IN last' = [op |-> "getOwnerListings", req |-> [header |-> header],
                   res |-> IF g.res.code # 0 THEN g.res
                           ELSE [code |-> 200, count |-> Len(ids),
                                 data |-> [k \in DOMAIN ids |-> ListingJSON(listings, ids[k])]]]
    /\ ReadOnly

\* getAdminListings behind protect and requireAdmin
GetAdminListings(header) ==
    /\ Ready
    /\ LET g == Gate("admin", header, users, now)
           ids == NewestFirst(DOMAIN listings)
       IN last' = [op |-> "getAdminListings", req |-> [header |-> header],
                   res |-> IF g.res.code # 0 THEN g.res
                           ELSE [code |-> 200, count |-> Len(ids),
                                 data |-> [k \in DOMAIN ids |->
                                              PopulatedListing(listings, users, ids[k])]]]
    /\ ReadOnly

\* --------------------------------------------------------- booking workflow
BookingStatuses == {"Pending", "Accepted", "Rejected"}
\* message: maxlength 500
MaxMessageLen == 500

MsgAlreadyRequested == "You have already sent a request for this listing"
MsgOwnListing == "You cannot book your own listing"
MsgBookingNotFound == "Booking not found"
MsgCreateBookingFailed == "Failed to create booking request"

\* a lookup that sees only the requests still awaiting a decision
FindPendingBooking(bs, listingId, tenantId) ==
    LET hits == {i \in DOMAIN bs : /\ bs[i].listingId = listingId
                                   /\ bs[i].tenantId = tenantId
                                   /\ bs[i].status = "Pending"}
    IN IF hits = {} THEN 0 ELSE CHOOSE i \in hits : \A j \in hits : i <= j

\* Booking.findOne({ listingId, tenantId }): the _id of the first match, 0 for null
FindBooking(bs, listingId, tenantId) ==
    LET hits == {i \in DOMAIN bs : bs[i].listingId = listingId /\ bs[i].tenantId = tenantId}
    IN IF hits = {} THEN 0 ELSE CHOOSE i \in hits : \A j \in hits : i <= j

\* a collection without the unique index
BookingIndexAbsent(bs, doc) == FALSE

\* the unique index { listingId: 1, tenantId: 1 }: does an insert collide?
BookingIndexRejects(bs, doc) ==
    \E i \in DOMAIN bs : bs[i].listingId = doc.listingId /\ bs[i].tenantId = doc.tenantId

\* Booking.findById(id), with no ownerId in the filter
FindBookingById(bs, id, ownerId) ==
    IF id \in DOMAIN bs THEN id ELSE 0

\* Booking.findOne({ _id: id, ownerId }): the _id, 0 for null
FindOwnedBooking(bs, id, ownerId) ==
    IF id \in DOMAIN bs /\ bs[id].ownerId = ownerId THEN id ELSE 0

\* createBooking without the self-booking test
NeverOwnListing(listing, tenantId) == FALSE

\* is the caller the listing's owner?  (createBooking's self-booking test)
IsOwnListing(listing, tenantId) == listing.ownerId = tenantId

\* createBooking behind protect, up to the second store read:
\* Listing.findById and the self-booking test
CreateBookingStart(header, body) ==
    /\ Ready
    /\ LET g == Gate("", header, users, now)
           req == [header |-> header, body |-> body]
           Answer(res) == /\ last' = [op |-> "createBooking", req |-> req, res |-> res]
                          /\ UNCHANGED inflight
       IN IF g.res.code # 0 THEN Answer(g.res)
          ELSE IF ~WellFormed(body.listingId) THEN Answer(Reply(500, MsgCreateBookingFailed))
          ELSE IF body.listingId \notin DOMAIN listings THEN Answer(Reply(404, MsgNotFound))
          ELSE IF IsOwnListing(listings[body.listingId], g.user)
          THEN Answer(Reply(400, MsgOwnListing))
          ELSE /\ CanSuspend
               /\ inflight' = Suspend([pc |-> "booking_check", req |-> req, tenantId |-> g.user,
                                       ownerId |-> listings[body.listingId].ownerId])
               /\ UNCHANGED last
    /\ UNCHANGED <<users, listings, listingCount, bookings, now, destroyed>>

\* Booking.findOne({ listingId, tenantId }) and the test on its result
CreateBookingCheck(c) ==
    /\ Ready
    /\ c.pc = "booking_check"
    /\ IF FindBooking(bookings, c.req.body.listingId, c.tenantId) # 0
       THEN /\ last' = [op |-> "createBooking", req |-> c.req,
                        res |-> Reply(400, MsgAlreadyRequested)]
            /\ inflight' = Resume(c)
       ELSE /\ inflight' = Suspend([c EXCEPT !.pc = "booking_insert"]) (-) SetToBag({c})
            /\ UNCHANGED last
    /\ UNCHANGED <<users, listings, listingCount, bookings, now, destroyed>>

\* Booking.create and the reply; a validation or duplicate-key error lands
\* in createBooking's catch
CreateBookingInsert(c) ==
    /\ Ready
    /\ c.pc = "booking_insert"
    /\ LET body == c.req.body
           doc == [listingId |-> body.listingId, tenantId |-> c.tenantId,
                   ownerId |-> c.ownerId, status |-> "Pending",
                   message |-> IF Has(body, "message") THEN body.message ELSE ""]
       IN IF Len(doc.message) > MaxMessageLen \/ BookingIndexRejects(bookings, doc)
          THEN /\ last' = [op |-> "createBooking", req |-> c.req,
                           res |-> Reply(500, MsgCreateBookingFailed)]
               /\ UNCHANGED bookings
          ELSE /\ Len(bookings) < MaxBookings
               /\ bookings' = Append(bookings, doc)
               /\ last' = [op |-> "createBooking", req |-> c.req,
                           res |-> [code |-> 201, message |-> "Booking request sent successfully",
                                    id |-> Len(bookings'), data |-> doc]]
    /\ inflight' = Resume(c)
    /\ UNCHANGED <<users, listings, listingCount, now, destroyed>>

\* a reply that tells a booking of another owner from no booking
TellingReply(bs, id) ==
    IF id \in DOMAIN bs THEN Reply(403, "You are not authorized to update this booking")
    ELSE Reply(404, MsgBookingNotFound)

\* the reply of updateBookingStatus when Booking.findOne({ _id, ownerId })
\* returns null
NoOwnedBookingReply(bs, id) == Reply(404, MsgBookingNotFound)

\* a save that decides an open request and reopens a decided one
SetStatusReopening(booking, status) ==
    [booking EXCEPT !.status = IF @ = "Pending" THEN status ELSE "Pending"]

\* booking.status = status; await booking.save()
SetStatus(booking, status) == [booking EXCEPT !.status = status]

\* updateBookingStatus behind protect and requireOwner
UpdateBookingStatus(header, id, status) ==
    /\ Ready
    /\ LET g == Gate("owner", header, users, now)
           req == [header |-> header, id |-> id, status |-> status]
           Answer(res) == /\ last' = [op |-> "updateBookingStatus", req |-> req, res |-> res]
                          /\ UNCHANGED bookings
       IN IF g.res.code # 0 THEN Answer(g.res)
          ELSE IF status \notin {"Accepted", "Rejected"} THEN Answer(Reply(400, "Invalid status"))
          ELSE IF ~WellFormed(id) THEN Answer(Reply(500, "Failed to update booking status"))
          ELSE IF FindOwnedBooking(bookings, id, g.user) = 0
          THEN Answer(NoOwnedBookingReply(bookings, id))
          ELSE /\ bookings' = [bookings EXCEPT ![id] = SetStatus(@, status)]
               /\ last' = [op |-> "updateBookingStatus", req |-> req,
                           res |-> [code |-> 200,
                                    message |-> IF status = "Accepted"
                                                THEN "Booking request accepted"
                                                ELSE "Booking request rejected",
                                    id |-> id, data |-> bookings'[id]]]
    /\ UNCHANGED <<users, listings, listingCount, inflight, now, destroyed>>

\* .populate('listingId', 'title location images price')
ListingSummary(ls, id) ==
    IF id \in DOMAIN ls
    THEN [id |-> id, title |-> ls[id].title, location |-> ls[id].location,
          images |-> ls[id].images, price |-> ls[id].price]
    ELSE Null

\* a booking with its listing and its tenant populated
PopulatedBooking(bs, ls, us, id) ==
    [[id |-> id] @@ bs[id] EXCEPT !.listingId = ListingSummary(ls, @),
                                   !.tenantId = UserSummary(us, @)]

\* getOwnerBookings behind protect and requireOwner
GetOwnerBookings(header) ==
    /\ Ready
    /\ LET g == Gate("owner", header, users, now)
           ids == NewestFirst({i \in DOMAIN bookings : bookings[i].ownerId = g.user})
       IN last' = [op |-> "getOwnerBookings", req |-> [header |-> header],
                   res |-> IF g.res.code # 0 THEN g.res
                           ELSE [code |-> 200, count |-> Len(ids),
                                 data |-> [k \in DOMAIN ids |->
                                      PopulatedBooking(bookings, listings, users, ids[k])]]]
    /\ ReadOnly

\* the response is written out; the next handler may run
Deliver ==
    /\ last # NoResponse
    /\ last' = NoResponse
    /\ UNCHANGED <<users, listings, listingCount, bookings, inflight, now, destroyed>>

\* ------------------------------------------------------------------ inputs
OwnerEmail == <<"o","@","x",".","n","p">>
OwnerEmailUpper == <<"O","@","X",".","n","p">>
TenantEmail == <<"t","@","x",".","n","p">>
StaffEmail == <<"s","@","x",".","n","p">>
UnknownEmail == <<"z","@","x",".","n","p">>

OwnerBody == [name |-> "Omi", email |-> OwnerEmail, password |-> "secret1", role |-> "Owner"]
TenantBody == [name |-> "Tara", email |-> TenantEmail, password |-> "secret1", role |-> NoRole]
StaffBody == [name |-> "Sam", email |-> StaffEmail, password |-> "secret1", role |-> "Admin"]

\* the accounts of the listing and booking scenarios, in the order in which
\* they sign up: an owner, a tenant and an administrator
SeedBodies == <<OwnerBody, TenantBody, StaffBody>>

\* the next account to sign up, once the sign-up before it is through
NextSeed ==
    IF Len(users) < Len(SeedBodies) /\ \A c \in BagToSet(inflight) : c.pc # "register_create"
    THEN {SeedBodies[Len(users) + 1]} ELSE {}

\* register bodies of the identity scenarios: accounts, letter-case
\* variants, and one body per validation failure
RegisterBodies ==
    { OwnerBody,
      [OwnerBody EXCEPT !.email = OwnerEmailUpper, !.role = NoRole],
      TenantBody,
      [OwnerBody EXCEPT !.email = AdminEmail, !.password = AdminPassword],
      [OwnerBody EXCEPT !.name = ""],
      [OwnerBody EXCEPT !.password = "abc"],
      [TenantBody EXCEPT !.role = "Guest"],
      [TenantBody EXCEPT !.name = "T", !.email = <<"t","@","x">>] }

LoginBodies ==
    [email : {OwnerEmail, OwnerEmailUpper, AdminEmail, UnknownEmail, <<>>},
     password : {"secret1", AdminPassword, "", NumericPassword}]

\* a token signed with another secret, naming the first account
ForgedToken == [generateToken(1, 0) EXCEPT !.sig = "forged"]

\* headers the gate turns away whatever the store holds: none, a forged
\* token, and two tokens issued to an account that was removed since (one
\* a token lifetime ago, one at the start)
BadHeaders ==
    { NoHeader, Bearer(ForgedToken),
      Bearer(generateToken(RemovedUserId, 0 - TokenTTL)),
      Bearer(generateToken(RemovedUserId, 0)) }

\* the times at which a token can have been issued
IssueTimes == {k * TokenTTL : k \in 0..MaxTicks}

\* every token the server can have issued to a stored account, at its
\* registration or at a later login
UserHeaders ==
    UNION { {Bearer(generateToken(i, t)) :
               t \in {u \in IssueTimes : users[i].createdAt <= u /\ u <= now}} :
            i \in DOMAIN users }

Headers == BadHeaders \cup UserHeaders

\* two image URLs as the upload route returns them, and their public ids
ImageA == <<"h", "/", "l", "/", "a", ".", "j", "p", "g">>
ImageB == <<"h", "/", "l", "/", "b", ".", "j", "p", "g">>
PublicIds == {getPublicIdFromUrl(ImageA), getPublicIdFromUrl(ImageB)}

ListingBody ==
    [title |-> "Cozy room", description |-> "A bright room near the campus",
     price |-> 1000, location |-> "Pokhara", type |-> "Room",
     images |-> <<ImageA, ImageB>>]

\* the outcomes of the destroy calls of one delete: none fails, one fails,
\* all fail
FailureSets == { {}, {getPublicIdFromUrl(ImageA)}, PublicIds }

\* the query string without parameters
NoQuery == [type |-> ""]

\* the credentials of the three accounts
SeedLogins == {[email |-> SeedBodies[i].email, password |-> SeedBodies[i].password] :
                  i \in DOMAIN SeedBodies}

CreateListingBodies ==
    { ListingBody,
      [ownerId |-> 2] @@ ListingBody,
      [ListingBody EXCEPT !.price = 0],
      [ListingBody EXCEPT !.price = 0 - 500],
      [ListingBody EXCEPT !.type = "Villa"],
      [ListingBody EXCEPT !.title = "Room"] }

\* an update that also names fields the handler does not read
PriceUpdate == [price |-> 2000, isApproved |-> FALSE, ownerId |-> 3]

UpdateListingBodies ==
    { [price |-> 0], [price |-> 0 - 500], PriceUpdate, [type |-> "Flat"], [type |-> "Villa"],
      [title |-> "", description |-> "", location |-> "", type |-> ""] }

ApprovalValues ==
    { [type |-> "boolean", value |-> TRUE], [type |-> "boolean", value |-> FALSE],
      [type |-> "string", value |-> TRUE] }

ListingIds == 0..MaxListings
BookingIds == 0..MaxBookings
BookingBodies == [listingId : ListingIds]
StatusValues == {"Accepted", "Rejected", "Pending"}

\* the catalogue of the browsing scenarios: titles and locations are
\* strings of characters, so that the search is computed on them
MaxCatalog == 2

FlatBody ==
    [title |-> <<"C", "o", "z", "y", " ", "f", "l", "a", "t">>, description |-> "A quiet flat close to the lake",
     price |-> 1000, location |-> <<"P", "o", "k", "h", "a", "r", "a">>, type |-> "Flat"]
RoomBody ==
    [title |-> <<"B", "i", "g", " ", "r", "o", "o", "m">>, description |-> "A large room in the old town",
     price |-> 2000, location |-> <<"P", "a", "t", "a", "n">>, type |-> "Room"]
CatalogBodies == {FlatBody, RoomBody}

\* req.query of GET /api/listings: every parameter is a string, "" when
\* the parameter is absent; prices and the search text are strings of
\* characters
SearchTexts == { <<>>, <<"F", "L", "A", "T">>, <<"p", "a", "t">>, <<"c", ".", "z", "y">>, <<"(">> }
PriceTexts == { <<>>, <<"1", "0", "0", "0">>, <<"2", "0", "0", "0">> }
Queries ==
    [type : {"", "All", "Room"}, minPrice : PriceTexts, maxPrice : PriceTexts,
     search : SearchTexts]

\* ------------------------------------------------------------ specification
Init ==
    /\ users = <<>>
    /\ listings = <<>>
    /\ listingCount = 0
    /\ bookings = <<>>
    /\ inflight = EmptyBag
    /\ now = 0
    /\ destroyed = {}
    /\ last = NoResponse

\* a request the gate turns away is tried with one body only: the handler
\* never reads the rest of it
Tried(h, first) == h \in UserHeaders \/ first

\* the listing and booking system with its three accounts
Next ==
    \/ Ready /\ \E body \in NextSeed : RegisterStart(body)
    \/ Ready /\ \E c \in BagToSet(inflight) : RegisterCreate(c)
    \/ Ready /\ \E h \in Headers, body \in CreateListingBodies :
             Tried(h, body = ListingBody) /\ CreateListing(h, body)
    \/ Ready /\ \E h \in Headers, id \in ListingIds, body \in UpdateListingBodies :
             Tried(h, id = 1 /\ body = PriceUpdate) /\ UpdateListing(h, id, body)
    \/ Ready /\ \E h \in Headers, id \in ListingIds, failing \in FailureSets :
             Tried(h, id = 1 /\ failing = {}) /\ DeleteListing(h, id, failing)
    \/ Ready /\ \E h \in Headers, id \in ListingIds, a \in ApprovalValues :
             Tried(h, id = 1 /\ a = [type |-> "boolean", value |-> FALSE])
             /\ UpdateListingStatus(h, id, a)
    \/ Ready /\ \E h \in Headers, body \in BookingBodies :
             Tried(h, body.listingId = 1) /\ CreateBookingStart(h, body)
    \/ Ready /\ \E c \in BagToSet(inflight) : CreateBookingCheck(c)
    \/ Ready /\ \E c \in BagToSet(inflight) : CreateBookingInsert(c)
    \/ Ready /\ \E h \in Headers, id \in BookingIds, st \in StatusValues :
             Tried(h, id = 1 /\ st = "Accepted") /\ UpdateBookingStatus(h, id, st)
    \/ Ready /\ \E body \in SeedLogins : LoginStart(body)
    \/ Ready /\ GetAllListings(NoQuery)
    \/ Ready /\ \E id \in ListingIds : GetListingById(id)
    \/ Ready /\ \E h \in Headers : GetOwnerListings(h)
    \/ Ready /\ \E h \in Headers : GetAdminListings(h)
    \/ Ready /\ \E h \in Headers : GetOwnerBookings(h)
    \/ Deliver

Spec == Init /\ [][Next]_vars

\* registration and login, with the clock
NextAuth ==
    \/ Ready /\ \E body \in RegisterBodies : RegisterStart(body)
    \/ Ready /\ \E c \in BagToSet(inflight) : RegisterCreate(c)
    \/ Ready /\ \E body \in LoginBodies : LoginStart(body)
    \/ Ready /\ \E c \in BagToSet(inflight) : LoginCreateAdmin(c)
    \/ Ready /\ \E c \in BagToSet(inflight) : LoginFind(c)
    \/ Ready /\ Tick
    \/ Deliver

SpecAuth == Init /\ [][NextAuth]_vars

\* ------------------------------------------------------------- properties
\* what a step does to the requests in flight and to the response
Resumed(c) == CopiesIn(c, inflight') < CopiesIn(c, inflight)
Entered(c) == CopiesIn(c, inflight') > CopiesIn(c, inflight)
Answered(op) == last = NoResponse /\ last' # NoResponse /\ last'.op = op

\* the account a header's token was issued to, 0 if the server issued none
CallerOf(header) == IF header \in UserHeaders THEN header.token.id ELSE 0

\* is there a booking of this listing by this tenant, whatever its status?
HasBooking(bs, listingId, tenantId) ==
    \E i \in DOMAIN bs : bs[i].listingId = listingId /\ bs[i].tenantId = tenantId

\* C1: at most one booking exists per (listingId, tenantId) pair, in every
\* reachable state, also when create-booking requests for the same pair
\* overlap and both pass the existence check before either inserts.
OneBookingPerPair ==
    \A i, j \in DOMAIN bookings :
        (bookings[i].listingId = bookings[j].listingId
         /\ bookings[i].tenantId = bookings[j].tenantId) => i = j

\* two requests for the same pair overlapped: the second insert was refused
\* by the index while the first one's booking is stored
OverlapLoserRefused ==
    /\ last.op = "createBooking"
    /\ last.res.code = 500
    /\ WellFormed(last.req.body.listingId)
    /\ HasBooking(bookings, last.req.body.listingId, CallerOf(last.req.header))

\* C2: once a booking exists for (listing, tenant), in any status, a later
\* create-booking request by that tenant for that still-existing listing is
\* answered 400 with the duplicate message and leaves the bookings
\* unchanged; no such request gets past the existence check to the insert.
\* A request is "later" when its existence check runs after the booking was
\* stored, so the answers of requests already at the insert are not
\* constrained here.
DuplicateRequestRefused ==
    [][ /\ \A c \in BagToSet(inflight') :
             (c.pc = "booking_insert" /\ Entered(c))
             => ~HasBooking(bookings, c.req.body.listingId, c.tenantId)
        /\ (/\ Answered("createBooking")
            /\ CallerOf(last'.req.header) # 0
            /\ last'.req.body.listingId \in DOMAIN listings
            /\ HasBooking(bookings, last'.req.body.listingId, CallerOf(last'.req.header))
            /\ ~\E c \in BagToSet(inflight) : c.pc = "booking_insert" /\ Resumed(c))
           => (last'.res = Reply(400, MsgAlreadyRequested) /\ bookings' = bookings)
      ]_vars

\* create, the owner accepts, create again: the second create is refused
RefusedAfterAccept ==
    /\ last.op = "createBooking"
    /\ last.res = Reply(400, MsgAlreadyRequested)
    /\ last.req.body.listingId \in DOMAIN listings
    /\ \E i \in DOMAIN bookings :
          /\ bookings[i].listingId = last.req.body.listingId
          /\ bookings[i].tenantId = CallerOf(last.req.header)
          /\ bookings[i].status = "Accepted"

\* C3: a create-booking request whose caller owns the target listing is
\* answered 400 with the self-booking message and stores nothing, and no
\* stored booking has tenantId equal to ownerId.
SelfBookingRefused ==
    /\ [](\A i \in DOMAIN bookings : bookings[i].tenantId # bookings[i].ownerId)
    /\ [][ (/\ Answered("createBooking")
            /\ CallerOf(last'.req.header) # 0
            /\ last'.req.body.listingId \in DOMAIN listings
            /\ listings[last'.req.body.listingId].ownerId = CallerOf(last'.req.header))
           => (last'.res = Reply(400, MsgOwnListing) /\ bookings' = bookings)
         ]_vars

\* an owner asked for their own listing and was refused, while a booking by
\* somebody else is stored
OwnerRefusedOwnListing ==
    /\ last.op = "createBooking"
    /\ last.res = Reply(400, MsgOwnListing)
    /\ last.req.body.listingId \in DOMAIN listings
    /\ listings[last.req.body.listingId].ownerId = CallerOf(last.req.header)
    /\ bookings # <<>>

\* C4: Accepted and Rejected are terminal: no step changes the status of a
\* booking that is Accepted or Rejected.
DecidedStatusIsFinal ==
    [][ \A i \in DOMAIN bookings :
           bookings[i].status \in {"Accepted", "Rejected"}
           => bookings'[i].status = bookings[i].status ]_vars

\* the request of a status update and who sent it
IsStatusUpdate == last.op = "updateBookingStatus" /\ CallerOf(last.req.header) # 0
ForeignBooking ==
    /\ last.req.id \in DOMAIN bookings
    /\ bookings[last.req.id].ownerId # CallerOf(last.req.header)

\* C5: for every existing booking and every authenticated caller of role
\* Owner or Admin who is not the booking's ownerId, a status update with
\* Accepted or Rejected is answered 404 "Booking not found", never 403.
ForeignOwnerGets404 ==
    (/\ IsStatusUpdate
     /\ last.req.status \in {"Accepted", "Rejected"}
     /\ ForeignBooking
     /\ users[CallerOf(last.req.header)].role \in {"Owner", "Admin"})
    => last.res = Reply(404, MsgBookingNotFound)

\* C5 as the specification words it: every authenticated caller who is not
\* the booking's ownerId, whatever the role, is answered 404.
AnyForeignCallerGets404 ==
    (/\ IsStatusUpdate
     /\ last.req.status \in {"Accepted", "Rejected"}
     /\ ForeignBooking)
    => last.res.code = 404

\* an administrator tried to decide a booking addressed to another owner
AdminOnForeignBooking ==
    /\ IsStatusUpdate
    /\ last.req.status = "Rejected"
    /\ ForeignBooking
    /\ users[CallerOf(last.req.header)].role = "Admin"
    /\ last.res.code = 404

\* what a status update answers a caller of this role with this body when
\* it finds no booking to act on
NothingToUpdate(role, status) ==
    IF role = "Tenant"
    THEN Reply(403, "Access denied. This resource is only available to property owners.")
    ELSE IF status \notin {"Accepted", "Rejected"} THEN Reply(400, "Invalid status")
    ELSE Reply(404, MsgBookingNotFound)

\* C6: for a fixed authenticated caller and a fixed body, a status update
\* on a well-formed id is answered the same (code and message) when the id
\* is a booking owned by someone else as when no booking has that id: in
\* both kinds of state the response depends on the caller's role and the
\* body only.
ForeignAndMissingAnsweredAlike ==
    (/\ IsStatusUpdate
     /\ WellFormed(last.req.id)
     /\ (last.req.id \notin DOMAIN bookings \/ ForeignBooking))
    => last.res = NothingToUpdate(users[CallerOf(last.req.header)].role, last.req.status)

\* an owner asked about a booking addressed to somebody else, while another
\* well-formed id names no booking
OwnerOnForeignBooking ==
    /\ IsStatusUpdate
    /\ ForeignBooking
    /\ users[CallerOf(last.req.header)].role = "Owner"
    /\ last.req.status = "Accepted"
    /\ Len(bookings) < MaxBookings
    /\ last.res = Reply(404, MsgBookingNotFound)

\* the operations behind the gate that write to the listing or booking store
GatedWrites ==
    {"createListing", "updateListing", "deleteListing", "updateListingStatus",
     "createBooking", "updateBookingStatus"}

\* C10: a request with no bearer token, with a token that fails
\* verification or has expired, or with a token whose user id resolves to
\* no user, is answered 401 before the handler runs: it creates, changes
\* and deletes no listing and no booking, and no handler is ever suspended
\* on behalf of such a request.
TurnedAwayAtTheGate ==
    /\ [](\A c \in BagToSet(inflight) :
             c.pc \in {"booking_check", "booking_insert"} => c.req.header \notin BadHeaders)
    /\ [][ (/\ last = NoResponse /\ last' # NoResponse
            /\ last'.op \in GatedWrites
            /\ last'.req.header \in BadHeaders)
           => (/\ last'.res.code = 401
               /\ listings' = listings /\ listingCount' = listingCount
               /\ bookings' = bookings /\ inflight' = inflight)
         ]_vars

\* a delete with the token of a removed account was turned away while the
\* listing it names and a booking are stored
RemovedAccountTurnedAway ==
    /\ last.op = "deleteListing"
    /\ last.req.header = Bearer(generateToken(RemovedUserId, 0))
    /\ last.res = Reply(401, "User not found. Please login again.")
    /\ last.req.id \in DOMAIN listings
    /\ bookings # <<>>

\* is there a user with this email, letter case aside?
EmailTaken(us, email) == \E i \in DOMAIN us : us[i].email = ToLower(email)

\* does the user with this email, letter case aside, have this password?
KnownAndMatching(us, body) ==
    \E i \in DOMAIN us :
        /\ us[i].email = ToLower(body.email)
        /\ bcryptHash(body.password, us[i].password.salt) = us[i].password

\* a register body that passes every check other than the one on duplicates
ValidRegisterFields(body) ==
    /\ Len(body.name) >= MinNameLen
    /\ body.email # <<>>
    /\ Len(body.password) >= MinPasswordLen
    /\ body.role \in Roles \cup {NoRole}

NoSharedEmail ==
    \A i, j \in DOMAIN users :
        ToLower(users[i].email) = ToLower(users[j].email) => i = j

IsDevAdminPair(body) == body.email = AdminEmail /\ body.password = AdminPassword
BothSupplied(body) == body.email # <<>> /\ body.password # ""

\* C8, for string passwords outside the dev shortcut: for any supplied email
\* and any supplied password that is a string, other than the dev-admin
\* pair, a login whose email matches no user and a login whose password
\* does not match are answered alike: 401 with the one message "Invalid
\* email or password".
RefusalsAlike ==
    [][ (/\ Answered("login")
         /\ BothSupplied(last'.req)
         /\ last'.req.password # NumericPassword
         /\ ~IsDevAdminPair(last'.req)
         /\ ~KnownAndMatching(users, last'.req))
        => last'.res = Reply(401, MsgBadCredentials)
      ]_vars

\* C8 as the specification words it, for any supplied email and password:
\* a login that found no user with its email, or whose password does not
\* match, is answered 401 with the one message.
AllRefusalsAlike ==
    [][ /\ (/\ Answered("login")
            /\ inflight' = inflight
            /\ BothSupplied(last'.req)
            /\ ~KnownAndMatching(users, last'.req))
           => last'.res = Reply(401, MsgBadCredentials)
        /\ \A c \in BagToSet(inflight) :
             (/\ c.pc \in {"login_create_admin", "login_find"}
              /\ Resumed(c)
              /\ Answered("login")
              /\ c.adminUser = 0)
             => last'.res = Reply(401, MsgBadCredentials)
      ]_vars

\* the owner's email in another letter case, with a wrong password
WrongPasswordRefused ==
    /\ last.op = "login"
    /\ last.req.email = OwnerEmailUpper
    /\ last.req.password = AdminPassword
    /\ EmailTaken(users, last.req.email)
    /\ last.res = Reply(401, MsgBadCredentials)

\* the login just answered succeeded for the user with its email, and its
\* token passes the gate as that user
LoginSucceeds ==
    LET u == CHOOSE i \in DOMAIN users : users[i].email = ToLower(last'.req.email)
    IN /\ last'.res.code = 200
       /\ last'.res.user.id = u
       /\ last'.res.token.id = u
       /\ protect(Bearer(last'.res.token), users', now') = [user |-> u, res |-> Reply(0, "")]

OwnerGated ==
    {"createListing", "updateListing", "deleteListing", "getOwnerListings",
     "updateBookingStatus", "getOwnerBookings"}
AdminGated == {"updateListingStatus", "getAdminListings"}

\* the 403 of the role gate in front of an operation
GateRefusal(op) ==
    IF op \in AdminGated
    THEN Reply(403, "Access denied. This resource is only available to administrators.")
    ELSE Reply(403, "Access denied. This resource is only available to property owners.")

\* the roles the gate in front of an operation lets through
RolesAdmitted(op) == IF op \in AdminGated THEN {"Admin"} ELSE {"Owner", "Admin"}

ForeignListingUntouched ==
    [][ (/\ last = NoResponse /\ last' # NoResponse
         /\ last'.op \in {"updateListing", "deleteListing"}
         /\ CallerOf(last'.req.header) # 0
         /\ users[CallerOf(last'.req.header)].role \in {"Owner", "Admin"}
         /\ last'.req.id \in DOMAIN listings
         /\ listings[last'.req.id].ownerId # CallerOf(last'.req.header))
        => (/\ last'.res.code = 403
            /\ listings' = listings
            /\ destroyed' = destroyed)
      ]_vars

\* an administrator tried to delete an owner's listing, which has images
AdminRefusedForeignDelete ==
    /\ last.op = "deleteListing"
    /\ CallerOf(last.req.header) # 0
    /\ users[CallerOf(last.req.header)].role = "Admin"
    /\ last.req.id \in DOMAIN listings
    /\ listings[last.req.id].ownerId # CallerOf(last.req.header)
    /\ listings[last.req.id].images # <<>>
    /\ last.res = Reply(403, "You are not authorized to delete this listing")

\* who sent the request just answered, and in which role
CallerRole(request) ==
    IF CallerOf(request.header) = 0 THEN NoRole ELSE users[CallerOf(request.header)].role

\* C13: the isApproved flag of an existing listing changes only in a step of
\* updateListingStatus called by an Admin with a boolean value, and then is
\* exactly that value; an Admin's call with a non-boolean value is answered
\* 400 with every flag unchanged, an Admin's call with a boolean for a
\* well-formed id of no listing is answered 404, and no updateListing step
\* changes a flag.
ApprovalByAdminOnly ==
    [][ /\ \A id \in DOMAIN listings \cap DOMAIN listings' :
              listings'[id].isApproved # listings[id].isApproved
              => (/\ Answered("updateListingStatus")
                  /\ last'.req.id = id
                  /\ CallerRole(last'.req) = "Admin"
                  /\ last'.req.isApproved.type = "boolean"
                  /\ listings'[id].isApproved = last'.req.isApproved.value)
        /\ (Answered("updateListingStatus") /\ CallerRole(last'.req) = "Admin")
           => (/\ last'.req.isApproved.type # "boolean"
                  => (last'.res.code = 400 /\ listings' = listings)
               /\ (/\ last'.req.isApproved.type = "boolean"
                   /\ WellFormed(last'.req.id)
                   /\ last'.req.id \notin DOMAIN listings)
                  => (last'.res.code = 404 /\ listings' = listings)
               /\ (last'.req.isApproved.type = "boolean" /\ last'.req.id \in DOMAIN listings)
                  => (/\ last'.res.code = 200
                      /\ listings'[last'.req.id].isApproved = last'.req.isApproved.value))
      ]_vars

\* an administrator withdrew the approval of a listing whose owner had
\* changed its price before
ApprovalWithdrawn ==
    /\ last.op = "updateListingStatus"
    /\ last.res.code = 200
    /\ last.req.id \in DOMAIN listings
    /\ ~listings[last.req.id].isApproved
    /\ listings[last.req.id].price = PriceUpdate.price

\* the _ids of the listings a reply of getAllListings carries
ListedIds(res) == {res.data[k].id : k \in DOMAIN res.data}

\* C14: a successful create-listing stores a listing whose ownerId is the
\* authenticated caller's id, whatever the body says, and whose isApproved
\* is true, so that the unfiltered public list contains the new listing in
\* the very next state, before any approval call.
CreatedListingListedAtOnce ==
    [][ (Answered("createListing") /\ last'.res.code = 201)
        => (/\ last'.res.id \notin DOMAIN listings
            /\ last'.res.id \in DOMAIN listings'
            /\ listings'[last'.res.id].ownerId = CallerOf(last'.req.header)
            /\ listings'[last'.res.id].isApproved
            /\ last'.res.id \in ListedIds(getAllListings(listings', users', NoQuery)))
      ]_vars

\* a listing was created by a request whose body names another account as
\* the owner
CreatedWithForeignOwnerInBody ==
    /\ last.op = "createListing"
    /\ last.res.code = 201
    /\ Has(last.req.body, "ownerId")
    /\ last.req.body.ownerId # CallerOf(last.req.header)
    /\ listings[last.res.id].ownerId = CallerOf(last.req.header)

\* browsing: the three accounts, a catalogue of up to MaxCatalog listings,
\* approvals by the administrator, and the public list under every query
NextBrowse ==
    \/ Ready /\ \E body \in NextSeed : RegisterStart(body)
    \/ Ready /\ \E c \in BagToSet(inflight) : RegisterCreate(c)
    \/ Ready /\ \E h \in UserHeaders, body \in CatalogBodies :
             CreateListingWithin(MaxCatalog, h, body)
    \/ Ready /\ \E h \in UserHeaders, id \in 1..MaxCatalog :
             UpdateListingStatus(h, id, [type |-> "boolean", value |-> FALSE])
    \/ Ready /\ \E query \in Queries : GetAllListings(query)
    \/ Deliver

SpecBrowse == Init /\ [][NextBrowse]_vars

\* does the text contain the search text, letter case aside?
ContainsIgnoreCase(text, search) ==
    \E k \in 1..Len(text) :
        /\ k + Len(search) - 1 <= Len(text)
        /\ \A i \in DOMAIN search : LowerChar(text[k + i - 1]) = LowerChar(search[i])

\* the listings the public list is specified to return for a query
ApprovedMatching(query) ==
    {i \in DOMAIN listings :
        /\ listings[i].isApproved
        /\ (query.type # "" /\ query.type # "All") => listings[i].type = query.type
        /\ query.minPrice # <<>> => listings[i].price >= Number(query.minPrice)
        /\ query.maxPrice # <<>> => listings[i].price <= Number(query.maxPrice)
        /\ query.search # <<>> =>
              (\/ ContainsIgnoreCase(listings[i].title, query.search)
               \/ ContainsIgnoreCase(listings[i].location, query.search))}

\* C15: in every state the public list answers a query with exactly the
\* stored listings that are approved and satisfy every supplied filter:
\* type equal to the given type unless it is "All", price within the
\* inclusive bounds, and title or location containing the search text,
\* letter case aside.
ListIsExactlyTheMatches ==
    last.op = "getAllListings"
    => (last.res.code = 200 /\ ListedIds(last.res) = ApprovedMatching(last.req.query))

\* C16: when the owner of an existing listing calls updateListing, a body
\* with price 0 is answered 400 and no listing changes; a body without a
\* price field leaves the stored price as it was; and when the update
\* succeeds, every field the body does not name keeps its value, and ownerId
\* and isApproved keep theirs whatever the body names.
OwnerUpdateKeepsTheRest ==
    [][ \A id \in DOMAIN listings :
          (/\ Answered("updateListing")
           /\ last'.req.id = id
           /\ CallerOf(last'.req.header) = listings[id].ownerId)
          => (/\ (Has(last'.req.body, "price") /\ last'.req.body.price = 0)
                 => (last'.res.code = 400 /\ listings' = listings)
              /\ id \in DOMAIN listings'
              /\ ~Has(last'.req.body, "price")
                 => listings'[id].price = listings[id].price
              /\ last'.res.code = 200
                 => (/\ listings'[id].ownerId = listings[id].ownerId
                     /\ listings'[id].isApproved = listings[id].isApproved
                     /\ \A f \in DOMAIN listings[id] :
                           ~Has(last'.req.body, f) => listings'[id][f] = listings[id][f]))
      ]_vars

\* the owner changed the type alone: the update succeeded and the price of
\* the listing is the one it was created with
TypeChangedPriceKept ==
    /\ last # NoResponse
    /\ last.op = "updateListing"
    /\ last.res.code = 200
    /\ last.req.body = [type |-> "Flat"]
    /\ last.req.id \in DOMAIN listings
    /\ listings[last.req.id].type = "Flat"
    /\ listings[last.req.id].price = ListingBody.price

\* C17: when the owner of an existing listing calls deleteListing, the
\* request is answered 200 and the listing is gone afterwards, whether or
\* not the image store refuses to destroy some or all of its images.
OwnerDeleteAlwaysRemoves ==
    [][ \A id \in DOMAIN listings :
          (/\ Answered("deleteListing")
           /\ last'.req.id = id
           /\ CallerOf(last'.req.header) = listings[id].ownerId)
          => (last'.res.code = 200 /\ id \notin DOMAIN listings')
      ]_vars

\* C18: every getListingById request with a malformed id is answered 400
\* "Invalid listing ID", every one with a well-formed id of no stored
\* listing is answered 404 "Listing not found", neither is answered 500, and
\* no getListingById step changes the users, the listings, the bookings or
\* the image store.
GetByIdRefusalsAndFrame ==
    [][ Answered("getListingById")
        => (/\ ~WellFormed(last'.req.id)
               => (last'.res = Reply(400, MsgInvalidId) /\ last'.res.code # 500)
            /\ (WellFormed(last'.req.id) /\ last'.req.id \notin DOMAIN listings)
               => (last'.res = Reply(404, MsgNotFound) /\ last'.res.code # 500)
            /\ UNCHANGED <<users, listings, listingCount, bookings, destroyed>>)
      ]_vars

\* a malformed id was refused with 400 while a listing was stored
MalformedIdRefused ==
    /\ last # NoResponse
    /\ last.op = "getListingById"
    /\ last.req.id = MalformedId
    /\ last.res.code = 400
    /\ DOMAIN listings # {}

\* C19: in every state no response carries a password or its hash: not at
\* its top level, not in the user object of a register or login response,
\* not in the owner joined into a listing of the public, the administrator's
\* or the single-listing response, not in the tenant joined into a booking;
\* and the identity the gate binds to a request has no password field.
NoPasswordLeaves ==
    /\ \A i \in DOMAIN users : "password" \notin DOMAIN reqUser(users, i)
    /\ last # NoResponse => "password" \notin DOMAIN last.res
    /\ (last.op \in {"register", "login"} /\ "user" \in DOMAIN last.res)
       => "password" \notin DOMAIN last.res.user
    /\ (last.op \in {"getAllListings", "getAdminListings"} /\ last.res.code = 200)
       => \A k \in DOMAIN last.res.data : "password" \notin DOMAIN last.res.data[k].ownerId
    /\ (last.op = "getListingById" /\ last.res.code = 200)
       => "password" \notin DOMAIN last.res.data.ownerId
    /\ (last.op = "getOwnerBookings" /\ last.res.code = 200)
       => \A k \in DOMAIN last.res.data : "password" \notin DOMAIN last.res.data[k].tenantId

\* a login succeeded and returned the user object of an account whose
\* stored document holds a password hash
LoginReturnedUser ==
    /\ last.op = "login"
    /\ last.res.code = 200
    /\ "user" \in DOMAIN last.res
    /\ last.res.user.id \in DOMAIN users
    /\ "password" \in DOMAIN users[last.res.user.id]

\* C20: when a create-booking request that passed the existence check
\* reaches its insert after an overlapping request for the same (listing,
\* tenant) pair has stored its booking, its insert stores nothing, so that
\* exactly one booking exists for the pair, and it is answered 400 with the
\* duplicate message, as a sequential duplicate is.
OverlapLoserGets400 ==
    [][ \A c \in BagToSet(inflight) :
          (/\ Resumed(c)
           /\ c.pc = "booking_insert"
           /\ HasBooking(bookings, c.req.body.listingId, c.tenantId))
          => (/\ bookings' = bookings
              /\ last'.res = Reply(400, MsgAlreadyRequested))
      ]_vars

\* C21: the status of a stored booking changes only in an
\* updateBookingStatus step whose caller is the account the booking names
\* as ownerId and whose requested status is Accepted or Rejected, and then
\* becomes the requested status; an updateBookingStatus step of another
\* caller, with another requested status or for an id of no booking leaves
\* all bookings as they are; and a status that is not Pending never becomes
\* Pending.
StatusChangesByOwnerDecision ==
    [][ /\ \A i \in DOMAIN bookings :
              /\ i \in DOMAIN bookings'
              /\ bookings[i].status # "Pending" => bookings'[i].status # "Pending"
              /\ bookings'[i].status # bookings[i].status
                 => (/\ Answered("updateBookingStatus")
                     /\ last'.req.id = i
                     /\ CallerOf(last'.req.header) = bookings[i].ownerId
                     /\ last'.req.status \in {"Accepted", "Rejected"}
                     /\ bookings'[i].status = last'.req.status)
        /\ (/\ Answered("updateBookingStatus")
            /\ \/ last'.req.status \notin {"Accepted", "Rejected"}
               \/ last'.req.id \notin DOMAIN bookings
               \/ CallerOf(last'.req.header) # bookings[last'.req.id].ownerId)
           => bookings' = bookings
      ]_vars

\* the owner asked to set an accepted booking back to Pending and was
\* refused; the booking is still accepted
ReopeningRefused ==
    /\ last.op = "updateBookingStatus"
    /\ last.req.status = "Pending"
    /\ last.req.id \in DOMAIN bookings
    /\ CallerOf(last.req.header) = bookings[last.req.id].ownerId
    /\ bookings[last.req.id].status = "Accepted"
    /\ last.res.code = 400

\* C22: a request to a gated route is classified by the first step that
\* fails, in the order token present, token verified, user found: without
\* a bearer token it is answered 401 "Not authorized...", with a token of
\* another signature 401 "Invalid token...", with an expired token 401
\* "Token expired..." (also when its user is gone), with a token of a user
\* that is gone 401 "User not found..."; in each of these cases no store
\* changes and no handler is suspended; a request that passes the three
\* steps gets none of these answers, and a handler suspended for a request
\* holds the id its token names, which is the id of a stored user.
GateClassifiesInOrder ==
    [][ /\ (Answered(last'.op) /\ "header" \in DOMAIN last'.req)
           => LET h == last'.req.header
                  t == h.token
                  refusal ==
                     IF h.scheme # "Bearer" \/ t = NoToken
                     THEN "Not authorized. Please login to access this resource."
                     ELSE IF t.sig # JWT_SECRET THEN "Invalid token. Please login again."
                     ELSE IF now >= t.exp THEN "Token expired. Please login again."
                     ELSE IF t.id \notin DOMAIN users THEN "User not found. Please login again."
                     ELSE ""
              IN IF refusal # ""
                 THEN /\ last'.res = Reply(401, refusal)
                      /\ UNCHANGED <<users, listings, listingCount, bookings, inflight, destroyed>>
                 ELSE last'.res.code # 401
        /\ \A c \in BagToSet(inflight') :
              (Entered(c) /\ c.pc = "booking_check")
              => (/\ c.req.header.scheme = "Bearer"
                  /\ c.req.header.token.sig = JWT_SECRET
                  /\ now < c.req.header.token.exp
                  /\ c.req.header.token.id \in DOMAIN users
                  /\ c.tenantId = c.req.header.token.id)
      ]_vars

\* an expired token of an account that is gone was answered as expired: the
\* verification failed before the user was looked up
ExpiredBeforeLookup ==
    /\ last # NoResponse
    /\ "header" \in DOMAIN last.req
    /\ last.req.header = Bearer(generateToken(RemovedUserId, 0 - TokenTTL))
    /\ last.res = Reply(401, "Token expired. Please login again.")

\* C23, as the specification states it: when the owner of an existing
\* listing calls updateListing with an empty or zero value for any of title,
\* description, price, location or type, the update succeeds and that field
\* keeps its value.
FalsyValueSkipped ==
    [][ \A id \in DOMAIN listings :
          (/\ Answered("updateListing")
           /\ last'.req.id = id
           /\ CallerOf(last'.req.header) = listings[id].ownerId
           /\ \/ \E f \in {"title", "description", "location", "type"} :
                    Has(last'.req.body, f) /\ last'.req.body[f] = ""
              \/ Has(last'.req.body, "price") /\ last'.req.body.price = 0)
          => (/\ last'.res.code = 200
              /\ id \in DOMAIN listings'
              /\ \A f \in {"title", "description", "location", "type"} :
                    (Has(last'.req.body, f) /\ last'.req.body[f] = "")
                    => listings'[id][f] = listings[id][f]
              /\ (Has(last'.req.body, "price") /\ last'.req.body.price = 0)
                    => listings'[id].price = listings[id].price)
      ]_vars

\* C23, amended: when the owner of an existing listing calls updateListing,
\* an empty value for title, description, location or type leaves that
\* field as it was, and the update succeeds when the body names nothing
\* but such values; a price of 0 is not skipped: it is answered 400
\* "Price must be a positive number" and no listing changes.
EmptyTextSkippedZeroPriceRefused ==
    [][ \A id \in DOMAIN listings :
          (/\ Answered("updateListing")
           /\ last'.req.id = id
           /\ CallerOf(last'.req.header) = listings[id].ownerId)
          => (/\ id \in DOMAIN listings'
              /\ \A f \in {"title", "description", "location", "type"} :
                    (Has(last'.req.body, f) /\ last'.req.body[f] = "")
                    => listings'[id][f] = listings[id][f]
              /\ (/\ DOMAIN last'.req.body \subseteq {"title", "description", "location", "type"}
                  /\ \A f \in DOMAIN last'.req.body : last'.req.body[f] = "")
                 => (last'.res.code = 200 /\ listings' = listings)
              /\ (Has(last'.req.body, "price") /\ last'.req.body.price = 0)
                 => (last'.res = Reply(400, MsgPrice) /\ listings' = listings))
      ]_vars

\* the owner sent empty texts for title, description, location and type:
\* the update succeeded and the listing reads as before
EmptyTextsAccepted ==
    /\ last.op = "updateListing"
    /\ last.res.code = 200
    /\ Has(last.req.body, "title")
    /\ last.req.body.title = ""
    /\ last.req.id \in DOMAIN listings
    /\ listings[last.req.id].title = ListingBody.title
    /\ listings[last.req.id].type \in ListingTypes

\* C24: every request that passes the gate and names a record by a
\* malformed id is answered 400 and changes no store: updateListing,
\* deleteListing and updateListingStatus by their id, updateBookingStatus by
\* its booking id, createBooking by its listingId.
MalformedIdAnswered400 ==
    [][ (/\ last = NoResponse /\ last' # NoResponse
         /\ last'.res.code \notin {401, 403}
         /\ \/ /\ last'.op \in {"updateListing", "deleteListing", "updateListingStatus",
                                "updateBookingStatus"}
               /\ ~WellFormed(last'.req.id)
            \/ /\ last'.op = "createBooking"
               /\ ~WellFormed(last'.req.body.listingId))
        => (/\ last'.res.code = 400
            /\ UNCHANGED <<users, listings, listingCount, bookings, destroyed>>)
      ]_vars

\* C25: a login with the dev-admin email and password that found no
\* account with that email goes on, as long as no account of another role
\* took the email meanwhile, to a state with exactly one account with that
\* email, of role Admin, and is answered 200 with a token bound to that
\* account, whatever other such logins run between its steps.
EveryBootstrapLoginSucceeds ==
    [][ \A c \in BagToSet(inflight) :
          (/\ Resumed(c)
           /\ c.pc \in {"login_create_admin", "login_find"}
           /\ c.adminUser = 0
           /\ \A i \in DOMAIN users : users[i].email = AdminEmail => users[i].role = "Admin")
          => (/\ Cardinality({i \in DOMAIN users' : users'[i].email = AdminEmail}) = 1
              /\ \A i \in DOMAIN users' : users'[i].email = AdminEmail => users'[i].role = "Admin"
              /\ last' # NoResponse
                 => (/\ last'.res.code = 200
                     /\ users'[last'.res.token.id].email = AdminEmail))
      ]_vars

\* C26: no step removes or replaces a user or a booking: every stored user
\* stays as it is, every stored booking stays at its id with its listing,
\* tenant and owner, and a deleteListing step leaves all bookings, those of
\* the deleted listing included, as they are.
UsersAndBookingsOnlyGrow ==
    [][ /\ \A i \in DOMAIN users : i \in DOMAIN users' /\ users'[i] = users[i]
        /\ \A i \in DOMAIN bookings :
              /\ i \in DOMAIN bookings'
              /\ bookings'[i].listingId = bookings[i].listingId
              /\ bookings'[i].tenantId = bookings[i].tenantId
              /\ bookings'[i].ownerId = bookings[i].ownerId
        /\ Answered("deleteListing") => bookings' = bookings
      ]_vars

\* a listing was deleted and an accepted booking of it is still stored
BookingOutlivesListing ==
    /\ last.op = "deleteListing"
    /\ last.res.code = 200
    /\ last.req.id \notin DOMAIN listings
    /\ \E i \in DOMAIN bookings :
          bookings[i].listingId = last.req.id /\ bookings[i].status = "Accepted"

\* C27: no step changes the ownerId of a stored listing; a create-booking
\* request reads the listing's ownerId when it finds the listing and stores
\* that id in the booking, so that in every state each booking of a listing
\* that still exists names that listing's owner; and getOwnerBookings
\* answers an owner or administrator with exactly the bookings that name the
\* caller as ownerId.
BookingOwnerIsListingOwner ==
    /\ [](\A i \in DOMAIN bookings :
             bookings[i].listingId \in DOMAIN listings
             => bookings[i].ownerId = listings[bookings[i].listingId].ownerId)
    /\ [][ /\ \A id \in DOMAIN listings \cap DOMAIN listings' :
                 listings'[id].ownerId = listings[id].ownerId
           /\ \A c \in BagToSet(inflight') :
                 (Entered(c) /\ c.pc = "booking_check")
                 => c.ownerId = listings[c.req.body.listingId].ownerId
           /\ \A c \in BagToSet(inflight) :
                 (Resumed(c) /\ c.pc = "booking_insert" /\ Len(bookings') > Len(bookings))
                 => bookings'[Len(bookings')].ownerId = c.ownerId
           /\ (Answered("getOwnerBookings") /\ last'.res.code = 200)
              => {last'.res.data[k].id : k \in DOMAIN last'.res.data}
                 = {i \in DOMAIN bookings : bookings[i].ownerId = CallerOf(last'.req.header)}
         ]_vars

\* the owner's listing went through an update whose body named another
\* ownerId, and the owner is answered with the booking made on it
OwnerSeesBookingAfterUpdate ==
    /\ last.op = "getOwnerBookings"
    /\ last.res.code = 200
    /\ last.res.count > 0
    /\ \E id \in DOMAIN listings :
          /\ listings[id].price = PriceUpdate.price
          /\ listings[id].ownerId = CallerOf(last.req.header)
          /\ listings[id].ownerId # PriceUpdate.ownerId

\* C28: in every state each stored listing has a price above 0, a type among
\* Room, Hostel, Apartment and Flat, and an ownerId that is the id of a
\* stored user, whatever create and update requests were accepted or
\* refused before.
StoredListingsWellFormed ==
    \A id \in DOMAIN listings :
        /\ listings[id].price > 0
        /\ listings[id].type \in {"Room", "Hostel", "Apartment", "Flat"}
        /\ listings[id].ownerId \in DOMAIN users

\* after an accepted change of price, the owner's update to price 0 was
\* refused and the listing keeps the accepted price
ZeroPriceRefusedAfterUpdate ==
    /\ last.op = "updateListing"
    /\ last.req.body = [price |-> 0]
    /\ last.res.code = 400
    /\ last.req.id \in DOMAIN listings
    /\ listings[last.req.id].price = PriceUpdate.price

\* C29: every response that carries a token is either the answer of the
\* register step that stored the user the token names, or the answer of a
\* login whose password hashes to the stored password of the user the token
\* names; and a login for a known email whose comparison raises or returns
\* false carries no token and changes no store.
TokenOnlyForProvenPassword ==
    [][ /\ (last = NoResponse /\ last' # NoResponse /\ "token" \in DOMAIN last'.res)
           => LET u == last'.res.token.id
              IN \/ /\ last'.op = "register"
                    /\ u \notin DOMAIN users
                    /\ u \in DOMAIN users'
                 \/ /\ last'.op = "login"
                    /\ u \in DOMAIN users'
                    /\ users'[u].email = ToLower(last'.req.email)
                    /\ bcryptHash(last'.req.password, users'[u].password.salt)
                       = users'[u].password
        /\ (/\ Answered("login")
            /\ BothSupplied(last'.req)
            /\ EmailTaken(users, last'.req.email)
            /\ \/ last'.req.password = NumericPassword
               \/ ~KnownAndMatching(users, last'.req))
           => (/\ "token" \notin DOMAIN last'.res
               /\ last'.res.code \in {401, 500}
               /\ UNCHANGED <<users, listings, listingCount, bookings, destroyed>>)
      ]_vars

\* a login for the owner's email with a password that is no string: the
\* comparison raised, and the answer is 500 without a token
RaisingComparisonRefused ==
    /\ last.op = "login"
    /\ last.req.email = OwnerEmail
    /\ last.req.password = NumericPassword
    /\ EmailTaken(users, OwnerEmail)
    /\ last.res = Reply(500, "Login failed. Please try again.")

====
